---- MODULE Spec2Model ----
(***************************************************************************)
(* Kidsnote album/report downloader: the background service worker's       *)
(* message listener, the two export loops (startDownloadAlbums,            *)
(* startDownloadReports), the per-item downloaders and safeDownload; the   *)
(* popup's start button; the content scripts' page fetch handlers.         *)
(*                                                                         *)
(* JavaScript is single-threaded: the code between two awaits is one       *)
(* atomic step.  Every await on a chrome.* promise or on sleep() is a      *)
(* suspension point at which any other message handler may run.  A         *)
(* storage write takes effect when it is issued (writes are applied in     *)
(* issue order); the await that follows it only suspends the caller.       *)
(***************************************************************************)
EXTENDS Integers, Sequences, FiniteSets, TLC

\* ------------------------------------------------------------------ bounds
MaxItems == 3
PageLen == 2
MaxAssets == 1
MaxStarts == 2
MaxStops == 1

\* for (let i = 0; i < 5000; i++)
PageCap == 5000

\* ----------------------------------------------------------------- strings
\* A string is the sequence of its UTF-16 code units.
Str_Empty == << >>
Ym_2024_09 == <<50, 48, 50, 52, 45, 48, 57>>
Ym_2024_10 == <<50, 48, 50, 52, 45, 49, 48>>
Ym_2024_11 == <<50, 48, 50, 52, 45, 49, 49>>
Created_2024_09 == Ym_2024_09 \o <<45, 49, 53>>
Created_2024_10 == Ym_2024_10 \o <<45, 48, 53>>
Created_2024_11 == Ym_2024_11 \o <<45, 50, 48>>
\* "2024-1-5": its first seven code units are no year-month
Created_2024_1_5 == <<50, 48, 50, 52, 45, 49, 45, 53>>

Min(a, b) == IF a <= b THEN a ELSE b

\* s.slice(0, n)
Slice(s, n) == SubSeq(s, 1, Min(n, Len(s)))

\* JavaScript truthiness of a string
Truthy(s) == Len(s) > 0

\* a < b on strings: code-unit-wise, a proper prefix is smaller
RECURSIVE StrLess(_, _)
StrLess(a, b) ==
  IF Len(b) = 0 THEN FALSE
  ELSE IF Len(a) = 0 THEN TRUE
  ELSE IF Head(a) # Head(b) THEN Head(a) < Head(b)
  ELSE StrLess(Tail(a), Tail(b))

IsDigit(c) == c >= 48 /\ c <= 57

\* /^20\d{2}-\d{2}$/.test(s)
YmFormatOk(s) ==
  /\ Len(s) = 7
  /\ s[1] = 50 /\ s[2] = 48
  /\ IsDigit(s[3]) /\ IsDigit(s[4])
  /\ s[5] = 45
  /\ IsDigit(s[6]) /\ IsDigit(s[7])

ymInRange(ym, fromYm, toYm) ==
  IF ~Truthy(ym) THEN FALSE
  ELSE IF ~YmFormatOk(ym) THEN TRUE
  ELSE IF Truthy(fromYm) /\ YmFormatOk(fromYm) /\ StrLess(ym, fromYm) THEN FALSE
  ELSE IF Truthy(toYm) /\ YmFormatOk(toYm) /\ StrLess(toYm, ym) THEN FALSE
  ELSE TRUE

\* filters?.fromYm || filters?.toYm
FiltersSet(f) == Truthy(f.fromYm) \/ Truthy(f.toYm)

\* inRange(ym) of the export loops
inRange(ym, f) == ~FiltersSet(f) \/ ymInRange(ym, f.fromYm, f.toYm)

\* if (toYm && ym && ym > toYm): skip forward
AboveTo(ym, f) == Truthy(f.toYm) /\ Truthy(ym) /\ StrLess(f.toYm, ym)

BelowFrom_Inclusive(ym, f) ==
  Truthy(f.fromYm) /\ Truthy(ym) /\ ~StrLess(f.fromYm, ym)

BelowFrom_Never(ym, f) == FALSE

\* if (fromYm && ym && ym < fromYm): early stop
BelowFrom(ym, f) == Truthy(f.fromYm) /\ Truthy(ym) /\ StrLess(ym, f.fromYm)

\* ------------------------------------------------------------------ inputs
Createds ==
  {Str_Empty, Created_2024_09, Created_2024_10, Created_2024_11,
   Created_2024_1_5}
FilterYms == {Str_Empty, Ym_2024_09, Ym_2024_10}
Filters == [fromYm : FilterYms, toYm : FilterYms]
NoFilters == [fromYm |-> Str_Empty, toYm |-> Str_Empty]

RECURSIVE SeqsUpTo(_, _)
SeqsUpTo(S, n) ==
  IF n = 0 THEN {<< >>}
  ELSE LET shorter == SeqsUpTo(S, n - 1)
       IN shorter \cup {Append(q, x) : q \in {t \in shorter : Len(t) = n - 1}, x \in S}

Streams == SeqsUpTo(Createds, MaxItems)

\* The server's chain of pages over the item stream.  A cursor token is the
\* number of the page it retrieves; 0 is next = null.  The chain is "finite",
\* or its last page points at itself ("self") or at page 1 ("back"), or it
\* never ends ("endless").
NumPages(stream) ==
  IF Len(stream) = 0 THEN 1 ELSE (Len(stream) + PageLen - 1) \div PageLen

\* the stream positions of the items of page p
PageResults(stream, p) ==
  LET lo == (p - 1) * PageLen + 1
      hi == Min(p * PageLen, Len(stream))
  IN [k \in 1..(IF hi >= lo THEN hi - lo + 1 ELSE 0) |-> lo + k - 1]

PageNext(stream, chain, p) ==
  IF chain = "endless" THEN p + 1
  ELSE IF p < NumPages(stream) THEN p + 1
  ELSE IF chain = "self" THEN p
  ELSE IF chain = "back" THEN 1
  ELSE 0

\* ------------------------------------------------------------------- state
VARIABLES
  env,              \* the environment: item stream, chain shape, sender
  stopRequested,    \* let stopRequested
  downloadRunning,  \* let downloadRunning
  store,            \* chrome.storage slots
  run,              \* one record per START_DOWNLOAD_* message
  stop,             \* one position per STOP_DOWNLOAD message
  popup,            \* the popup: its two filter fields, its alert, its messages
  content,          \* a content script's FETCH_*_PAGE handler
  segment,          \* a call of sanitizeSegment
  pick,             \* the attachments of an item and the URLs chosen for them
  locator           \* a content script's GET_*_API_INFO handler

\* what the service worker's steps leave alone
others == <<popup, content, segment, pick, locator>>

vars == <<env, stopRequested, downloadRunning, store, run, stop, popup, content,
          segment, pick, locator>>

Slots == 1..MaxStarts
StopSlots == 1..MaxStops

NoReport == [kind |-> "empty"]
NoMarker == [index |-> 0, id |-> 0, done |-> FALSE]

InitStore ==
  [progressText |-> "", finalReport |-> NoReport, stopRequested |-> FALSE,
   downloadRunning |-> FALSE, lastProgress |-> NoMarker,
   lastErrorDetail |-> "", filters |-> NoFilters]

\* const counters = {...} and the locals of startDownloadAlbums /
\* startDownloadReports, followed by a record of what the run has done.
IdleRun ==
  [pc |-> "idle", kind |-> "album", filters |-> NoFilters, tab |-> TRUE,
   resp |-> "none",
   items |-> 0, skipped |-> 0, photos |-> 0, videos |-> 0, files |-> 0,
   errors |-> 0, lastError |-> "",
   processed |-> 0, doneRange |-> FALSE, pageToken |-> 0, seen |-> {},
   i |-> -1, page |-> 1, idx |-> 1,
   asset |-> "none", an |-> 0, acount |-> 0, err |-> "",
   exported |-> << >>,
   attempts |-> 0, primary |-> "none", retry |-> "none", saveOk |-> "none",
   lateCalls |-> 0, lateAssets |-> 0, assetLate |-> FALSE, lateItems |-> 0,
   stopSeen |-> FALSE, failed |-> "", published |-> NoReport,
   terminal |-> "none", early |-> << >>, fatal |-> << >>,
   fetches |-> 0, nullPage |-> FALSE, called |-> FALSE, halted |-> FALSE,
   completed |-> 0,
   saved |-> [text |-> 0, photo |-> 0, video |-> 0, file |-> 0]]

RetiredRun == [IdleRun EXCEPT !.pc = "retired"]

\* the positions at which a run owns the downloadRunning flag
ActivePcs ==
  {"h_setRunning", "r_stopStored", "r_cleared", "r_started", "r_discover",
   "r_fetchFirst", "r_lp0", "i_textProg", "d_primary", "d_retryProg",
   "d_retry", "d_failProg", "i_errStored", "a_prog", "a_sleep", "i_lp1",
   "i_lp2", "i_sleep", "p_scanProg", "r_fetchNext", "f_report", "f_lp",
   "f_prog", "c_prog", "c_report"}

\* the positions inside startDownloadAlbums / startDownloadReports
LoopPcs == ActivePcs \ {"h_setRunning", "c_prog", "c_report"}

\* ------------------------------------------------- the export loop, by step
\* A step works on m = [r: the run, st: the storage, sr: stopRequested] and
\* runs the code up to its next await.

Snapshot(r) == <<Len(r.exported), r.skipped>>

Summary(r) ==
  [kind |-> "summary", of |-> r.kind, items |-> r.items, photos |-> r.photos,
   videos |-> r.videos, files |-> r.files, errors |-> r.errors,
   lastError |-> IF r.errors > 0 THEN r.lastError ELSE ""]

Synthetic(e) == [kind |-> "synthetic", error |-> e]

\* the record of the last safeDownload is dropped once the loop moves on
ClearSave(m) ==
  [m EXCEPT !.r.attempts = 0, !.r.primary = "none", !.r.retry = "none",
            !.r.saveOk = "none"]

\* const report = ...; await setFinalReport(report)
Finish(m) ==
  [m EXCEPT !.st.finalReport = Summary(m.r),
            !.r.published = Summary(m.r),
            !.r.pc = "f_report"]

\* a seenTokens.add that records nothing
seenAdd_Forget(S, x) == S

\* seenTokens.add(pageToken): the set with one more token.  A run of
\* consecutive tokens is written as the interval it is.
seenAdd(S, x) ==
  LET n == Cardinality(S)
  IN IF n > 0 /\ S = (x - n)..(x - 1) THEN (x - n)..x ELSE S \cup {x}

LoopCheck_RetrySeen(m) ==
  LET r == m.r
  IN IF r.i >= PageCap THEN Finish(m)
     ELSE IF r.pageToken = 0 THEN Finish(m)
     ELSE IF r.pageToken \in r.seen
       THEN [m EXCEPT !.r.i = r.i - 1, !.st.progressText = "scan",
                      !.r.pc = "p_scanProg"]
     ELSE IF r.doneRange
       THEN Finish([m EXCEPT !.r.seen = seenAdd(r.seen, r.pageToken)])
     ELSE [m EXCEPT !.r.seen = seenAdd(r.seen, r.pageToken),
                    !.r.pc = "r_fetchNext"]

\* for (let i = 0; i < 5000; i++) { if (!pageToken) break; ... fetch }
LoopCheck(m) ==
  LET r == m.r
  IN IF r.i >= PageCap THEN Finish(m)
     ELSE IF r.pageToken = 0 THEN Finish(m)
     ELSE IF r.pageToken \in r.seen THEN Finish(m)
     ELSE IF r.doneRange
       THEN Finish([m EXCEPT !.r.seen = seenAdd(r.seen, r.pageToken)])
     ELSE [m EXCEPT !.r.seen = seenAdd(r.seen, r.pageToken),
                    !.r.pc = "r_fetchNext"]

\* pageToken = first.next / pageToken = j.next, then the loop header
AfterResults(m) ==
  LoopCheck([m EXCEPT !.r.pageToken = PageNext(env.stream, env.chain, m.r.page),
                      !.r.i = m.r.i + 1])

\* the end of handleResults: the light progress update when a range is set
AfterLoop(m) ==
  IF FiltersSet(m.r.filters)
    THEN [ClearSave(m) EXCEPT !.st.progressText = "scan", !.r.pc = "p_scanProg"]
    ELSE AfterResults(ClearSave(m))

\* res.ok in handleResults: processed++, the marker (albums), sleep(80)
ItemOk(m) ==
  IF m.r.kind = "album"
    THEN [m EXCEPT !.r.processed = m.r.processed + 1,
                   !.st.lastProgress =
                      [index |-> m.r.processed + 1,
                       id |-> PageResults(env.stream, m.r.page)[m.r.idx],
                       done |-> FALSE],
                   !.r.pc = "i_lp2"]
    ELSE [m EXCEPT !.r.processed = m.r.processed + 1, !.r.pc = "i_sleep"]

ItemFailed_KeepGoing(m) ==
  ItemOk([m EXCEPT !.r.errors = m.r.errors + 1,
                   !.r.lastError = m.r.err,
                   !.r.fatal = Snapshot(m.r)])

\* !res.ok in handleResults: lastError, lastErrorDetail (albums), break
ItemFailed(m) ==
  LET q == [m EXCEPT !.r.errors = m.r.errors + 1,
                     !.r.lastError = m.r.err,
                     !.r.fatal = Snapshot(m.r)]
  IN IF m.r.kind = "album"
       THEN [q EXCEPT !.st.lastErrorDetail = m.r.err, !.r.pc = "i_errStored"]
       ELSE AfterLoop([q EXCEPT !.r.doneRange = TRUE])

\* the end of downloadAlbumFromApi (the marker) / downloadReportFromApi
ItemEnd(m) ==
  LET q == [m EXCEPT !.r.completed = m.r.completed + 1]
  IN IF m.r.kind = "album"
       THEN [q EXCEPT !.st.lastProgress =
                         [index |-> m.r.processed + 1,
                          id |-> PageResults(env.stream, m.r.page)[m.r.idx],
                          done |-> FALSE],
                      !.r.pc = "i_lp1"]
       ELSE ItemOk(q)

\* a .catch that records the error without writing the failure line
Catch_KeepLine(m, e) ==
  [m EXCEPT !.r.err = e, !.r.failed = e, !.r.pc = "c_prog"]

\* a rejected promise of startDownload*: .catch sets the failure line
Catch(m, e) ==
  [m EXCEPT !.st.progressText = "runfail", !.r.err = e, !.r.failed = e,
            !.r.terminal = "runfail", !.r.pc = "c_prog"]

\* const ext = (new URL(url)).pathname... threw: nothing in the downloader or
\* in handleResults catches it, the promise of startDownload* is rejected
InvalidUrl(m) == Catch(m, "InvalidURL")

AssetProgress(m, kind, an, count) ==
  [m EXCEPT !.st.progressText = kind, !.r.asset = kind, !.r.an = an,
            !.r.acount = count, !.r.pc = "a_prog"]

\* for (const [i, f] of files.entries()) { if (stopRequested) break; ...
FileLoop(m, an, count) ==
  IF an > count \/ m.sr THEN ItemEnd(m)
  ELSE AssetProgress(m, "file", an, count)

\* for (const [i, url] of videos.entries()) { if (stopRequested) break; ...
VideoLoop(m, an, count, nf) ==
  IF an > count \/ m.sr
    THEN IF m.r.kind = "album" THEN ItemEnd(m) ELSE FileLoop(m, 1, nf)
  ELSE IF env.badUrl = "video" THEN InvalidUrl(m)
  ELSE AssetProgress(m, "video", an, count)

PhotoLoop_NoStopCheck(m, an, count, nv, nf) ==
  IF an > count THEN VideoLoop(m, 1, nv, nf)
  ELSE AssetProgress(m, "photo", an, count)

\* for (const [i, url] of images.entries()) { if (stopRequested) break; ...
PhotoLoop(m, an, count, nv, nf) ==
  IF an > count \/ m.sr THEN VideoLoop(m, 1, nv, nf)
  ELSE IF env.badUrl = "photo" THEN InvalidUrl(m)
  ELSE AssetProgress(m, "photo", an, count)

\* safeDownload returned ok: the counter of the asset kind, then its delay
AssetOk(m, np, nv, nf) ==
  LET q == [m EXCEPT !.r.saveOk = "ok",
                     !.r.saved[m.r.asset] = m.r.saved[m.r.asset] + 1]
  IN CASE m.r.asset = "text" -> PhotoLoop(q, 1, np, nv, nf)
       [] m.r.asset = "photo" ->
            [q EXCEPT !.r.photos = m.r.photos + 1, !.r.pc = "a_sleep"]
       [] m.r.asset = "video" ->
            [q EXCEPT !.r.videos = m.r.videos + 1, !.r.pc = "a_sleep"]
       [] OTHER ->
            [q EXCEPT !.r.files = m.r.files + 1, !.r.pc = "a_sleep"]

\* downloadAlbumFromApi / downloadReportFromApi up to the text progress line
EnterItem(m) ==
  LET r == m.r
      pos == PageResults(env.stream, r.page)[r.idx]
      ym == Slice(env.stream[pos], 7)
      q == [m EXCEPT !.r.exported = Append(r.exported, pos)]
  IN IF m.sr THEN ItemOk(q)
     ELSE IF FiltersSet(r.filters) /\ ~ymInRange(ym, r.filters.fromYm, r.filters.toYm)
       THEN ItemOk(q)
     ELSE [q EXCEPT !.st.progressText = "text", !.r.asset = "text",
                    !.r.an = 0, !.r.acount = 0,
                    !.r.lateItems = r.lateItems + (IF r.stopSeen THEN 1 ELSE 0),
                    !.r.pc = "i_textProg"]

\* async function handleResults(results), from the item at r.idx
RECURSIVE handleResults(_)
handleResults(m) ==
  LET r == m.r
      results == PageResults(env.stream, r.page)
  IN IF r.idx > Len(results) THEN AfterLoop(m)
     ELSE IF m.sr THEN AfterLoop([m EXCEPT !.r.doneRange = TRUE,
                                           !.r.halted = TRUE])
     ELSE LET ym == Slice(env.stream[results[r.idx]], 7)
              skip == [m EXCEPT !.r.skipped = r.skipped + 1,
                                !.r.processed = r.processed + 1,
                                !.r.idx = r.idx + 1]
          IN IF AboveTo(ym, r.filters) THEN handleResults(skip)
             ELSE IF BelowFrom(ym, r.filters)
               THEN AfterLoop([m EXCEPT !.r.doneRange = TRUE,
                                        !.r.early = Snapshot(r)])
             ELSE IF ~inRange(ym, r.filters) THEN handleResults(skip)
             ELSE EnterItem(m)

\* await setProgress(stopRequested ? `중단됨 ...` : `완료 ...`)
Terminal(m) ==
  LET line == IF m.sr THEN "stopped" ELSE "done"
  IN [m EXCEPT !.st.progressText = line, !.r.terminal = line, !.r.pc = "f_prog"]

\* a .finally that leaves the flag as it is
Finally_KeepRunning(m) == [m EXCEPT !.r.pc = "z_running"]

\* .finally(async () => { await setDownloadRunning(false); })
Finally(m) ==
  [m EXCEPT !.dr = FALSE, !.st.downloadRunning = FALSE, !.r.pc = "z_running"]

\* fn() / retryFn() of safeDownload is called: one chrome.downloads.download
IssueCall(m, isRetry) ==
  LET r == m.r
      newAsset == m.sr /\ (~isRetry \/ ~r.assetLate)
  IN [m EXCEPT !.r.attempts = IF isRetry THEN r.attempts + 1 ELSE 1,
               !.r.called = TRUE,
               !.r.primary = IF isRetry THEN r.primary ELSE "none",
               !.r.retry = "none",
               !.r.saveOk = "none",
               !.r.lateCalls = r.lateCalls + (IF m.sr THEN 1 ELSE 0),
               !.r.lateAssets = r.lateAssets + (IF newAsset THEN 1 ELSE 0),
               !.r.assetLate = IF isRetry THEN (r.assetLate \/ m.sr) ELSE m.sr,
               !.r.pc = IF isRetry THEN "d_retry" ELSE "d_primary"]

SaveFailed(m, e) ==
  [m EXCEPT !.st.progressText = "fail", !.r.err = e, !.r.saveOk = "failed",
            !.r.failed = e, !.r.pc = "d_failProg"]

PrimaryResult_RetryAny(m, out, np, nv, nf) ==
  LET q == [m EXCEPT !.r.primary = out]
  IN IF out = "ok" THEN AssetOk(q, np, nv, nf)
     ELSE [q EXCEPT !.st.progressText = "retry", !.r.pc = "d_retryProg"]

\* safeDownload: try { await fn() } catch (e) { Invalid filename ? retry : fail }
PrimaryResult(m, out, np, nv, nf) ==
  LET q == [m EXCEPT !.r.primary = out]
  IN IF out = "ok" THEN AssetOk(q, np, nv, nf)
     ELSE IF out = "invalid"
       THEN [q EXCEPT !.st.progressText = "retry", !.r.pc = "d_retryProg"]
     ELSE SaveFailed(q, out)

\* safeDownload: try { await retryFn() } catch (e2) { fail }
RetryResult(m, out, np, nv, nf) ==
  LET q == [m EXCEPT !.r.retry = out]
  IN IF out = "ok" THEN AssetOk(q, np, nv, nf) ELSE SaveFailed(q, out)

\* if (!msg.tabId) throw ...; await setDownloadRunning(true)
TabCheckAndSetRunning(m) ==
  IF ~m.r.tab
    THEN [m EXCEPT !.r.pc = "failed", !.r.resp = "MISSING_TAB_ID"]
    ELSE [m EXCEPT !.dr = TRUE, !.st.downloadRunning = TRUE,
                   !.r.pc = "h_setRunning"]

StartHandler_ResetOnReject(m, kind, hasFilters, f, hasTab) ==
  IF m.dr
    THEN [m EXCEPT !.r.pc = "rejected", !.r.resp = "ALREADY_RUNNING",
                   !.sr = FALSE, !.st.finalReport = NoReport]
    ELSE LET q == [m EXCEPT !.r.kind = kind, !.r.tab = hasTab]
         IN IF ~hasFilters THEN [q EXCEPT !.r.pc = "h_getFilters"]
            ELSE TabCheckAndSetRunning([q EXCEPT !.r.filters = f])

\* if (msg?.kind === 'START_DOWNLOAD_ALBUM' / 'START_DOWNLOAD_REPORT')
StartHandler(m, kind, hasFilters, f, hasTab) ==
  IF m.dr
    THEN [m EXCEPT !.r.pc = "rejected", !.r.resp = "ALREADY_RUNNING"]
    ELSE LET q == [m EXCEPT !.r.kind = kind, !.r.tab = hasTab]
         IN IF ~hasFilters THEN [q EXCEPT !.r.pc = "h_getFilters"]
            ELSE TabCheckAndSetRunning([q EXCEPT !.r.filters = f])

\* startDownloadAlbums(...) is called: stopRequested = false; sendResponse
BeginRun(m) ==
  [m EXCEPT !.sr = FALSE, !.st.stopRequested = FALSE, !.r.resp = "ok",
            !.r.pc = "r_stopStored"]

\* ----------------------------------------------------------------- actions
M(s) == [r |-> run[s], st |-> store, sr |-> stopRequested, dr |-> downloadRunning]

Commit(s, m) ==
  /\ run' = [run EXCEPT ![s] = m.r]
  /\ store' = m.st
  /\ stopRequested' = m.sr
  /\ downloadRunning' = m.dr
  /\ UNCHANGED <<others, env, stop>>

At(s, pc) == run[s].pc = pc

AssetCounts == 0..env.assets

EnvFilters == IF env.fset = "all" THEN Filters ELSE {NoFilters}

FetchResults == IF env.faults THEN {"ok", "http", "nonjson"} ELSE {"ok"}

DownloadResults == IF env.faults THEN {"ok", "invalid", "other"} ELSE {"ok"}

DiscoverResults == IF env.faults THEN BOOLEAN ELSE {TRUE}

\* a START_DOWNLOAD_* message reaches the listener
RecvStart(s) ==
  /\ At(s, "idle")
  /\ s <= env.starts
  /\ \A t \in Slots : t < s => run[t].pc # "idle"
  /\ \E kind \in {"album", "report"}, hasFilters \in BOOLEAN,
        f \in EnvFilters, hasTab \in BOOLEAN :
       /\ env.sender = "popup" => hasFilters /\ hasTab
       /\ LET m == StartHandler(M(s), kind, hasFilters, f, hasTab)
              retired == [t \in Slots |->
                            IF run[t].pc = "ended" THEN RetiredRun ELSE run[t]]
          IN /\ run' = [retired EXCEPT ![s] = m.r]
             /\ store' = m.st
             /\ stopRequested' = m.sr
             /\ downloadRunning' = m.dr
  /\ UNCHANGED <<others, env, stop>>

\* const filters = msg.filters || (await getStored('filters', {}))
GotFilters(s) ==
  /\ At(s, "h_getFilters")
  /\ Commit(s, TabCheckAndSetRunning([M(s) EXCEPT !.r.filters = store.filters]))

RunCalled(s) ==
  /\ At(s, "h_setRunning")
  /\ LET m == BeginRun(M(s))
     IN /\ run' = [t \in Slots |->
                     [(IF t = s THEN m.r ELSE run[t]) EXCEPT
                        !.lateCalls = 0, !.lateAssets = 0, !.assetLate = FALSE]]
        /\ store' = m.st
        /\ stopRequested' = m.sr
        /\ downloadRunning' = m.dr
  /\ UNCHANGED <<others, env, stop>>

\* await setStored('stopRequested', false) returned: setFinalReport('')
ClearReport(s) ==
  /\ At(s, "r_stopStored")
  /\ Commit(s, [M(s) EXCEPT !.st.finalReport = NoReport, !.r.pc = "r_cleared"])

\* await setProgress(`시작: ...`)
PublishStart(s) ==
  /\ At(s, "r_cleared")
  /\ Commit(s, [M(s) EXCEPT !.st.progressText = "start", !.r.pc = "r_started"])

\* const counters = {...}; await getAlbumApiInfo(tabId)
Discover(s) ==
  /\ At(s, "r_started")
  /\ Commit(s, [M(s) EXCEPT !.r.pc = "r_discover"])

\* getAlbumApiInfo returned or threw; the first page is requested
Discovered(s) ==
  /\ At(s, "r_discover")
  /\ \E ok \in DiscoverResults :
       Commit(s, IF ok
                   THEN [M(s) EXCEPT !.r.pc = "r_fetchFirst"]
                   ELSE Catch(M(s), "CANT_DETECT"))

\* a FETCH_*_PAGE request has been answered: res.json is null when the body
\* was not JSON
Fetched(m, res) ==
  [m EXCEPT !.r.fetches = m.r.fetches + 1,
            !.r.nullPage = m.r.nullPage \/ res = "nonjson"]

\* const first = await fetch...JsonViaTab(...); first.count; lastProgress
FirstPage(s) ==
  /\ At(s, "r_fetchFirst")
  /\ \E res \in FetchResults :
       LET m == Fetched(M(s), res)
       IN Commit(s, IF res = "http" THEN Catch(m, "HTTP")
                    ELSE IF res = "nonjson" THEN Catch(m, "TypeError")
                    ELSE IF run[s].kind = "album"
                      THEN [m EXCEPT !.st.lastProgress = NoMarker,
                                     !.r.pc = "r_lp0"]
                    ELSE handleResults([m EXCEPT !.r.page = 1, !.r.idx = 1]))

\* await handleResults(first.results)
FirstResults(s) ==
  /\ At(s, "r_lp0")
  /\ Commit(s, handleResults([M(s) EXCEPT !.r.page = 1, !.r.idx = 1]))

\* counters.albumsDownloaded++; safeDownload('text 저장', ...)
SaveText(s) ==
  /\ At(s, "i_textProg")
  /\ Commit(s, IssueCall([M(s) EXCEPT !.r.items = run[s].items + 1], FALSE))

\* safeDownload('photo 다운로드' / 'video 다운로드' / 'file 다운로드', ...)
SaveAsset(s) ==
  /\ At(s, "a_prog")
  /\ Commit(s, IssueCall(M(s), FALSE))

PrimaryDone(s) ==
  /\ At(s, "d_primary")
  /\ \E out \in DownloadResults, np \in AssetCounts, nv \in AssetCounts,
        nf \in AssetCounts :
       Commit(s, PrimaryResult(M(s), out, np, nv, nf))

\* await setProgress(`⚠️ ... 재시도 중…`); await retryFn()
Retry(s) ==
  /\ At(s, "d_retryProg")
  /\ Commit(s, IssueCall(M(s), TRUE))

RetryDone(s) ==
  /\ At(s, "d_retry")
  /\ \E out \in DownloadResults, np \in AssetCounts, nv \in AssetCounts,
        nf \in AssetCounts :
       Commit(s, RetryResult(M(s), out, np, nv, nf))

\* return { ok: false, error }; counters.errors++; back in handleResults
SaveFailedReturn(s) ==
  /\ At(s, "d_failProg")
  /\ Commit(s, ItemFailed(M(s)))

\* a fatal branch without its break: the loop goes on to the next item
ErrorStored_NoBreak(s) ==
  /\ At(s, "i_errStored")
  /\ Commit(s, handleResults([ClearSave(M(s)) EXCEPT !.r.idx = run[s].idx + 1]))

\* await setStored('lastErrorDetail', ...); doneRange = true; break
ErrorStored(s) ==
  /\ At(s, "i_errStored")
  /\ Commit(s, AfterLoop([M(s) EXCEPT !.r.doneRange = TRUE]))

\* await sleep(80) / sleep(120) inside an asset loop: the next iteration
AssetSleepDone(s) ==
  /\ At(s, "a_sleep")
  /\ \E nv \in AssetCounts, nf \in AssetCounts :
       LET r == run[s]
       IN Commit(s, CASE r.asset = "photo" ->
                          PhotoLoop(M(s), r.an + 1, r.acount, nv, nf)
                      [] r.asset = "video" ->
                          VideoLoop(M(s), r.an + 1, r.acount, nf)
                      [] OTHER -> FileLoop(M(s), r.an + 1, r.acount))

\* await setStored('lastProgress', ...) at the end of downloadAlbumFromApi
ItemMarkerStored(s) ==
  /\ At(s, "i_lp1")
  /\ Commit(s, ItemOk(M(s)))

\* await setStored('lastProgress', ...) in handleResults; sleep(80)
ProcessedStored(s) ==
  /\ At(s, "i_lp2")
  /\ Commit(s, [ClearSave(M(s)) EXCEPT !.r.pc = "i_sleep"])

\* a loop that leaves the page after its first exported item
ItemSleepDone_SkipRest(s) ==
  /\ At(s, "i_sleep")
  /\ Commit(s, AfterLoop(ClearSave(M(s))))

\* await sleep(80) in handleResults: the next item
ItemSleepDone(s) ==
  /\ At(s, "i_sleep")
  /\ Commit(s, handleResults([ClearSave(M(s)) EXCEPT !.r.idx = run[s].idx + 1]))

ScanProgressDone(s) ==
  /\ At(s, "p_scanProg")
  /\ Commit(s, AfterResults(M(s)))

\* const j = await fetch...JsonViaTab(...); await handleResults(j.results)
NextPage(s) ==
  /\ At(s, "r_fetchNext")
  /\ \E res \in FetchResults :
       LET m == Fetched(M(s), res)
       IN Commit(s, IF res = "http" THEN Catch(m, "HTTP")
                    ELSE IF res = "nonjson" THEN Catch(m, "TypeError")
                    ELSE handleResults([m EXCEPT !.r.page = run[s].pageToken,
                                                 !.r.idx = 1]))

\* await setFinalReport(report) returned
ReportPublished(s) ==
  /\ At(s, "f_report")
  /\ Commit(s, IF run[s].kind = "album"
                 THEN [M(s) EXCEPT !.st.lastProgress =
                                      [index |-> run[s].processed, id |-> 0,
                                       done |-> TRUE],
                                   !.r.pc = "f_lp"]
                 ELSE Terminal(M(s)))

FinalMarkerStored(s) ==
  /\ At(s, "f_lp")
  /\ Commit(s, Terminal(M(s)))

TerminalPublished(s) ==
  /\ At(s, "f_prog")
  /\ Commit(s, Finally(M(s)))

\* .catch: await setProgress(`❌ 실행 실패`); await setFinalReport(...)
CatchProgressDone(s) ==
  /\ At(s, "c_prog")
  /\ Commit(s, [M(s) EXCEPT !.st.finalReport = Synthetic(run[s].err),
                            !.r.published = Synthetic(run[s].err),
                            !.r.pc = "c_report"])

CatchReportDone(s) ==
  /\ At(s, "c_report")
  /\ Commit(s, Finally(M(s)))

RunEnded(s) ==
  /\ At(s, "z_running")
  /\ Commit(s, [M(s) EXCEPT !.r.pc = "ended"])

\* if (msg?.kind === 'STOP_DOWNLOAD') { stopRequested = true; ...
RecvStop(k) ==
  /\ stop[k] = "idle"
  /\ k <= env.stops
  /\ \A j \in StopSlots : j < k => stop[j] # "idle"
  /\ stopRequested' = TRUE
  /\ store' = [store EXCEPT !.stopRequested = TRUE]
  /\ stop' = [stop EXCEPT ![k] = "s_flag"]
  /\ run' = [t \in Slots |->
               IF run[t].pc \in ActivePcs
                 THEN [run[t] EXCEPT !.stopSeen = TRUE] ELSE run[t]]
  /\ UNCHANGED <<others, env, downloadRunning>>

\* await setProgress('정지 요청됨…')
StopStored(k) ==
  /\ stop[k] = "s_flag"
  /\ store' = [store EXCEPT !.progressText = "stopreq"]
  /\ stop' = [stop EXCEPT ![k] = "s_prog"]
  /\ UNCHANGED <<others, env, stopRequested, downloadRunning, run>>

\* sendResponse({ ok: true })
StopAnswered(k) ==
  /\ stop[k] = "s_prog"
  /\ stop' = [stop EXCEPT ![k] = "done"]
  /\ UNCHANGED <<others, env, stopRequested, downloadRunning, store, run>>

RunStep(s) ==
  \/ GotFilters(s) \/ RunCalled(s) \/ ClearReport(s) \/ PublishStart(s)
  \/ Discover(s) \/ Discovered(s) \/ FirstPage(s) \/ FirstResults(s)
  \/ SaveText(s) \/ SaveAsset(s) \/ PrimaryDone(s) \/ Retry(s) \/ RetryDone(s)
  \/ SaveFailedReturn(s) \/ ErrorStored(s) \/ AssetSleepDone(s)
  \/ ItemMarkerStored(s) \/ ProcessedStored(s) \/ ItemSleepDone(s)
  \/ ScanProgressDone(s) \/ NextPage(s) \/ ReportPublished(s)
  \/ FinalMarkerStored(s) \/ TerminalPublished(s) \/ CatchProgressDone(s)
  \/ CatchReportDone(s) \/ RunEnded(s)

Next ==
  \/ \E s \in Slots : RecvStart(s) \/ RunStep(s)
  \/ \E k \in StopSlots : RecvStop(k) \/ StopStored(k) \/ StopAnswered(k)

\* ------------------------------------------------------------------ popup
MaxClicks == 2

worker == <<env, stopRequested, downloadRunning, store, run, stop>>

Ym_2024_13 == <<50, 48, 50, 52, 45, 49, 51>>
Ym_2024_00 == <<50, 48, 50, 52, 45, 48, 48>>
Ym_1999_10 == <<49, 57, 57, 57, 45, 49, 48>>
Ym_2024_1 == <<50, 48, 50, 52, 45, 49>>
Ym_Spaced == <<32>> \o Ym_2024_10 \o <<32>>

\* what the user may have typed into the fromYm / toYm fields
FieldValues ==
  {Str_Empty, Ym_2024_09, Ym_2024_10, Ym_2024_13, Ym_2024_00, Ym_1999_10,
   Ym_2024_1, Ym_Spaced}

RECURSIVE TrimStart(_)
TrimStart(s) ==
  IF Len(s) > 0 /\ Head(s) = 32 THEN TrimStart(Tail(s)) ELSE s

RECURSIVE TrimEnd(_)
TrimEnd(s) ==
  IF Len(s) > 0 /\ s[Len(s)] = 32 THEN TrimEnd(SubSeq(s, 1, Len(s) - 1)) ELSE s

\* String.prototype.trim
Trim(s) == TrimEnd(TrimStart(s))

getFilters(p) == [fromYm |-> Trim(p.fromField), toYm |-> Trim(p.toField)]

validateYm(ym) == ~Truthy(ym) \/ YmFormatOk(ym)

\* the alert validateRangeOrAlert shows; "" when it answers { ok: true }
validateRangeOrAlert(filters) ==
  IF ~validateYm(filters.fromYm) \/ ~validateYm(filters.toYm) THEN "format"
  ELSE IF Truthy(filters.fromYm) /\ Truthy(filters.toYm)
          /\ StrLess(filters.toYm, filters.fromYm) THEN "order"
  ELSE ""

IdlePopup ==
  [fromField |-> Str_Empty, toField |-> Str_Empty, pc |-> "idle",
   kind |-> "album", clicks |-> 0, alert |-> "", sent |-> << >>]

\* startDownload(kind) from the return of getActiveTab() on
startDownload(p, hasTab) ==
  LET filters == getFilters(p)
      alert == validateRangeOrAlert(filters)
      q == [p EXCEPT !.pc = "idle"]
  IN IF ~hasTab THEN q
     ELSE IF alert # "" THEN [q EXCEPT !.alert = alert]
     ELSE [q EXCEPT !.alert = "",
                    !.sent = Append(p.sent, [kind |-> p.kind, filters |-> filters])]

\* a click on downloadAlbum / downloadReport: await getActiveTab()
PopupClick(kind) ==
  /\ popup.pc = "idle"
  /\ popup.clicks < MaxClicks
  /\ popup' = [popup EXCEPT !.pc = "tab", !.kind = kind, !.clicks = popup.clicks + 1]
  /\ UNCHANGED <<worker, content, segment, pick, locator>>

PopupTabResolved ==
  /\ popup.pc = "tab"
  /\ \E hasTab \in BOOLEAN : popup' = startDownload(popup, hasTab)
  /\ UNCHANGED <<worker, content, segment, pick, locator>>

PopupNext ==
  \/ \E kind \in {"album", "report"} : PopupClick(kind)
  \/ PopupTabResolved

\* ---------------------------------------------------------- content script
\* FETCH_ALBUMS_PAGE of content/album_list.js and FETCH_REPORTS_PAGE of
\* content/report_list.js.  URLs are strings of code units.
MaxRequests == 1

Url_Https == <<104, 116, 116, 112, 115>>
Url_Http == <<104, 116, 116, 112>>
Url_SchemeSep == <<58, 47, 47>>
Url_NoScheme == << >>
Url_Host == <<119, 119, 119, 46, 107, 105, 100, 115, 110, 111, 116, 101, 46, 99, 111, 109>>
Url_HostBare == <<107, 105, 100, 115, 110, 111, 116, 101, 46, 99, 111, 109>>
Url_HostSuffixed == <<119, 119, 119, 46, 107, 105, 100, 115, 110, 111, 116, 101, 46, 99, 111, 109, 46, 101, 118, 105, 108, 46, 105, 111>>
Url_HostPort == <<119, 119, 119, 46, 107, 105, 100, 115, 110, 111, 116, 101, 46, 99, 111, 109, 58, 56, 52, 52, 51>>
Url_Api13 == <<47, 97, 112, 105, 47, 118, 49, 95, 51, 47, 99, 104, 105, 108, 100, 114, 101, 110, 47>>
Url_Api12 == <<47, 97, 112, 105, 47, 118, 49, 95, 50, 47, 99, 104, 105, 108, 100, 114, 101, 110, 47>>
Url_Nested13 == <<47, 120, 47, 97, 112, 105, 47, 118, 49, 95, 51, 47, 99, 104, 105, 108, 100, 114, 101, 110, 47>>
Url_Id7 == <<55>>
Url_Id42 == <<52, 50>>
Url_IdNone == << >>
Url_Id7a == <<55, 97>>
Url_Albums == <<47, 97, 108, 98, 117, 109, 115>>
Url_AlbumsSlash == <<47, 97, 108, 98, 117, 109, 115, 47>>
Url_Reports == <<47, 114, 101, 112, 111, 114, 116, 115>>
Url_ReportsSlash == <<47, 114, 101, 112, 111, 114, 116, 115, 47>>
Url_AlbumsDeeper == <<47, 97, 108, 98, 117, 109, 115, 47, 57>>
Url_NoCollection == << >>
Url_NoQuery == << >>
Url_Query == <<63, 112, 97, 103, 101, 61, 50>>

Url_HttpsColon == Url_Https \o <<58>>

Schemes == {Url_Https \o Url_SchemeSep, Url_Http \o Url_SchemeSep, Url_NoScheme}
Authorities == {Url_Host, Url_HostBare, Url_HostSuffixed, Url_HostPort}
PathHeads == {Url_Api13, Url_Api12, Url_Nested13}
ChildIds == {Url_Id7, Url_Id42, Url_IdNone, Url_Id7a}
PathTails ==
  {Url_Albums, Url_AlbumsSlash, Url_Reports, Url_ReportsSlash,
   Url_AlbumsDeeper, Url_NoCollection}
Queries == {Url_NoQuery, Url_Query}

\* msg.url of the requests
Urls ==
  {sc \o au \o ph \o id \o pt \o qu :
     sc \in Schemes, au \in Authorities, ph \in PathHeads, id \in ChildIds,
     pt \in PathTails, qu \in Queries}

\* the first position from k on of s that holds a code unit of C, or
\* Len(s) + 1
RECURSIVE IndexOfAny(_, _, _)
IndexOfAny(s, C, k) ==
  IF k > Len(s) THEN Len(s) + 1
  ELSE IF s[k] \in C THEN k
  ELSE IndexOfAny(s, C, k + 1)

RECURSIVE SkipSlashes(_, _)
SkipSlashes(s, k) ==
  IF k <= Len(s) /\ s[k] = 47 THEN SkipSlashes(s, k + 1) ELSE k

RECURSIVE SkipDigits(_, _)
SkipDigits(s, k) ==
  IF k <= Len(s) /\ IsDigit(s[k]) THEN SkipDigits(s, k + 1) ELSE k

IsAlpha(c) == (c >= 97 /\ c <= 122) \/ (c >= 65 /\ c <= 90)

\* new URL(raw) threw
BadUrl == [ok |-> FALSE, protocol |-> << >>, hostname |-> << >>,
           port |-> << >>, pathname |-> << >>]

\* new URL(raw) without a base: the scheme up to the first ':', then for
\* http(s) the slashes, the authority (host and optional port) and the path
\* up to '?' or '#'.  A string without a scheme, with an empty host or with
\* a port that is not a number throws.
parseUrl(raw) ==
  LET c == IndexOfAny(raw, {58}, 1)
  IN IF c > Len(raw) \/ c = 1 \/ ~IsAlpha(raw[1]) THEN BadUrl
     ELSE LET protocol == SubSeq(raw, 1, c)
          IN IF protocol \notin {Url_Https \o <<58>>, Url_Http \o <<58>>}
               THEN [ok |-> TRUE, protocol |-> protocol, hostname |-> << >>,
                     port |-> << >>,
                     pathname |-> SubSeq(raw, c + 1,
                                         IndexOfAny(raw, {63, 35}, c + 1) - 1)]
             ELSE LET a == SkipSlashes(raw, c + 1)
                      e == IndexOfAny(raw, {47, 63, 35}, a)
                      authority == SubSeq(raw, a, e - 1)
                      p == IndexOfAny(authority, {58}, 1)
                      port == SubSeq(authority, p + 1, Len(authority))
                      q == IndexOfAny(raw, {63, 35}, e)
                  IN IF p = 1 \/ Len(authority) = 0 THEN BadUrl
                     ELSE IF SkipDigits(port, 1) <= Len(port) THEN BadUrl
                     ELSE [ok |-> TRUE, protocol |-> protocol,
                           hostname |-> SubSeq(authority, 1, p - 1),
                           port |-> port,
                           pathname |-> IF q = e THEN <<47>>
                                        ELSE SubSeq(raw, e, q - 1)]

StartsWith(s, p) == Len(s) >= Len(p) /\ SubSeq(s, 1, Len(p)) = p

\* /^<head>\d+<tail>\/?$/.test(path), where tail starts with a slash
MatchesCollection(path, head, tail) ==
  /\ StartsWith(path, head)
  /\ LET d == Len(head) + 1
         e == SkipDigits(path, d)
         rest == SubSeq(path, e, Len(path))
     IN e > d /\ (rest = tail \/ rest = tail \o <<47>>)

\* an allow-list test that forgets the host
isAllowedAlbumsApiUrl_AnyHost(raw) ==
  LET u == parseUrl(raw)
  IN /\ u.ok
     /\ u.protocol = Url_HttpsColon
     /\ MatchesCollection(u.pathname, Url_Api13, Url_Albums)

isAllowedAlbumsApiUrl(raw) ==
  LET u == parseUrl(raw)
  IN /\ u.ok
     /\ u.protocol = Url_HttpsColon
     /\ u.hostname = Url_Host
     /\ MatchesCollection(u.pathname, Url_Api13, Url_Albums)

isAllowedReportsApiUrl(raw) ==
  LET u == parseUrl(raw)
  IN /\ u.ok
     /\ u.protocol = Url_HttpsColon
     /\ u.hostname = Url_Host
     /\ MatchesCollection(u.pathname, Url_Api12, Url_Reports)

\* the outcomes of fetch(msg.url), r.text() and JSON.parse(text)
PageFetchOutcomes == {"json", "nonjson", "http", "rejected"}

IdleContent ==
  [pc |-> "idle", kind |-> "albums", url |-> << >>, fetched |-> FALSE,
   resp |-> "none", handled |-> 0]

\* the handler up to its first await: the allow-list test, then either the
\* fixed error answer or fetch(msg.url, { credentials: 'include' })
FetchPage(c, kind, raw, allowed) ==
  IF allowed
    THEN [c EXCEPT !.pc = "fetching", !.kind = kind, !.url = raw,
                   !.fetched = TRUE, !.resp = "none",
                   !.handled = c.handled + 1]
    ELSE [c EXCEPT !.pc = "answered", !.kind = kind, !.url = raw,
                   !.fetched = FALSE, !.resp = "DISALLOWED_FETCH_URL",
                   !.handled = c.handled + 1]

\* if (msg?.kind === 'FETCH_ALBUMS_PAGE')
FetchAlbumsPage(raw) ==
  /\ content.pc \in {"idle", "answered"}
  /\ content.handled < MaxRequests
  /\ content' = FetchPage(content, "albums", raw, isAllowedAlbumsApiUrl(raw))
  /\ UNCHANGED <<worker, popup, segment, pick, locator>>

\* if (msg?.kind === 'FETCH_REPORTS_PAGE')
FetchReportsPage(raw) ==
  /\ content.pc \in {"idle", "answered"}
  /\ content.handled < MaxRequests
  /\ content' = FetchPage(content, "reports", raw, isAllowedReportsApiUrl(raw))
  /\ UNCHANGED <<worker, popup, segment, pick, locator>>

\* the fetch settled: sendResponse({ ok: r.ok, status, json }) or, from the
\* catch, sendResponse({ ok: false, error: String(e) })
FetchPageAnswered ==
  /\ content.pc = "fetching"
  /\ \E out \in PageFetchOutcomes :
       content' = [content EXCEPT !.pc = "answered", !.resp = out]
  /\ UNCHANGED <<worker, popup, segment, pick, locator>>

ContentNext ==
  \/ \E raw \in Urls : FetchAlbumsPage(raw)
  \/ \E raw \in Urls : FetchReportsPage(raw)
  \/ FetchPageAnswered

\* --------------------------------------------------------- sanitizeSegment
MaxSegLen == 3
MaxCap == 3

\* a letter, a slash, a dot, a space, a tab, a no-break space, an underscore
SegAlphabet == {97, 47, 46, 32, 9, 160, 95}

\* [\\/:*?"<>|]
SegForbidden == {92, 47, 58, 42, 63, 34, 60, 62, 124}

\* [\u0000-\u001F\u007F]
IsControl(c) == c <= 31 \/ c = 127

\* \s of a regular expression
IsSpace(c) ==
  \/ c \in {9, 10, 11, 12, 13, 32, 160, 5760, 8232, 8233, 8239, 8287, 12288,
             65279}
  \/ (c >= 8192 /\ c <= 8202)

\* .replace(/[\\/:*?"<>|]/g, '_')
ReplaceForbidden(s) ==
  [k \in 1..Len(s) |-> IF s[k] \in SegForbidden THEN 95 ELSE s[k]]

IsKept(c) == ~IsControl(c)

\* .replace(/[\u0000-\u001F\u007F]/g, '')
RemoveControls(s) == SelectSeq(s, IsKept)

\* .replace(/\s+/g, ' ')
RECURSIVE CollapseSpaces(_)
CollapseSpaces(s) ==
  IF Len(s) = 0 THEN s
  ELSE IF ~IsSpace(Head(s)) THEN <<Head(s)>> \o CollapseSpaces(Tail(s))
  ELSE IF Len(s) > 1 /\ IsSpace(s[2]) THEN CollapseSpaces(Tail(s))
  ELSE <<32>> \o CollapseSpaces(Tail(s))

\* .replace(/[\.\s]+$/g, '')
RECURSIVE StripTrailing(_)
StripTrailing(s) ==
  IF Len(s) > 0 /\ (s[Len(s)] = 46 \/ IsSpace(s[Len(s)]))
    THEN StripTrailing(SubSeq(s, 1, Len(s) - 1))
    ELSE s

Untitled == <<117, 110, 116, 105, 116, 108, 101, 100>>

sanitizeSegment(s, maxLen) ==
  LET out == StripTrailing(Trim(CollapseSpaces(RemoveControls(ReplaceForbidden(s)))))
  IN Slice(IF ~Truthy(out) THEN Untitled ELSE out, maxLen)

SegInputs == UNION {[1..n -> SegAlphabet] : n \in 0..MaxSegLen}

IdleSegment == [pc |-> "idle", s |-> << >>, n |-> 1, once |-> << >>,
                twice |-> << >>]

\* sanitizeSegment(s, n)
SanitizeOnce ==
  /\ segment.pc = "input"
  /\ segment' = [segment EXCEPT !.pc = "once",
                                 !.once = sanitizeSegment(segment.s, segment.n)]
  /\ UNCHANGED <<worker, popup, content, pick, locator>>

\* the result is sanitized again with the same cap
SanitizeAgain ==
  /\ segment.pc = "once"
  /\ segment' = [segment EXCEPT !.pc = "twice",
                                 !.twice = sanitizeSegment(segment.once, segment.n)]
  /\ UNCHANGED <<worker, popup, content, pick, locator>>

SegmentNext == SanitizeOnce \/ SanitizeAgain

\* ------------------------------------------------ the URLs of attachments
MaxAttach == 1

\* A URL is a positive number, a missing field is 0.
NoUrl == 0

\* x || y
OrElse(x, y) == IF x # NoUrl THEN x ELSE y

\* pickBestImageUrl / pickBestReportImageUrl (null is NoUrl)
pickBestImageUrl(img) ==
  OrElse(img.original, OrElse(img.large, OrElse(img.large_resize,
         OrElse(img.small, img.small_resize))))

\* pickBestVideoUrl
pickBestVideoUrl(v) == OrElse(v.high, v.low)

IsUrl(u) == u # NoUrl

\* .filter(Boolean)
FilterBoolean(urls) == SelectSeq(urls, IsUrl)

\* flattenVideoUrl of an object: [v.high, v.low, v.url].filter(Boolean)
flattenVideoUrl(v) == FilterBoolean(<<v.high, v.low, v.url>>)

\* urls.push(...flattenVideoUrl(v)) for each attachment in turn
RECURSIVE PushAll(_)
PushAll(vs) ==
  IF Len(vs) = 0 THEN << >> ELSE flattenVideoUrl(Head(vs)) \o PushAll(Tail(vs))

\* [...new Set(urls)]: the first occurrence of each URL, in order
RECURSIVE Distinct(_)
Distinct(urls) ==
  IF Len(urls) = 0 THEN << >>
  ELSE LET front == Distinct(SubSeq(urls, 1, Len(urls) - 1))
           last == urls[Len(urls)]
       IN IF \E k \in 1..Len(front) : front[k] = last THEN front
          ELSE Append(front, last)

getReportVideoUrls(vs) == FilterBoolean(Distinct(PushAll(vs)))

\* (item.attached_images || []).map(pickBest...ImageUrl).filter(Boolean)
ImageUrls(imgs) ==
  FilterBoolean([k \in 1..Len(imgs) |-> pickBestImageUrl(imgs[k])])

\* (album.attached_videos || []).map(pickBestVideoUrl).filter(Boolean)
AlbumVideoUrls(vs) ==
  FilterBoolean([k \in 1..Len(vs) |-> pickBestVideoUrl(vs[k])])

\* an image attachment: each rendition has its own URL or is missing
ImageShapes ==
  [original : {NoUrl, 1}, large : {NoUrl, 2}, large_resize : {NoUrl, 3},
   small : {NoUrl, 4}, small_resize : {NoUrl, 5}]

\* a video attachment: the renditions may share a URL
VideoShapes == [high : {NoUrl, 1, 2}, low : {NoUrl, 1, 2}, url : {NoUrl, 3}]

IdlePick ==
  [pc |-> "idle", kind |-> "album", images |-> << >>, videos |-> << >>,
   imageUrls |-> << >>, videoUrls |-> << >>]

\* downloadAlbumFromApi: the URLs the photo and video loops download
PickAlbumUrls ==
  /\ pick.pc = "input" /\ pick.kind = "album"
  /\ pick' = [pick EXCEPT !.pc = "done",
                           !.imageUrls = ImageUrls(pick.images),
                           !.videoUrls = AlbumVideoUrls(pick.videos)]
  /\ UNCHANGED <<worker, popup, content, segment, locator>>

\* downloadReportFromApi: the URLs the photo and video loops download
PickReportUrls ==
  /\ pick.pc = "input" /\ pick.kind = "report"
  /\ pick' = [pick EXCEPT !.pc = "done",
                           !.imageUrls = ImageUrls(pick.images),
                           !.videoUrls = getReportVideoUrls(pick.videos)]
  /\ UNCHANGED <<worker, popup, content, segment, locator>>

PickNext == PickAlbumUrls \/ PickReportUrls

\* ------------------------------------------------------ endpoint discovery
\* GET_ALBUM_API_INFO of content/album_list.js, GET_REPORT_API_INFO of
\* content/report_list.js and get*ApiInfo of the service worker.  A child id
\* is a positive number, 0 stands for null.
MaxLookups == 2

\* the child id in the first matching URL of the resource log, if any
ScanHits == {0, 7}

\* the body of /api/v1/me/info/: the fields a child id is read from
InfoBodies == [child0 : {0, 5}, direct : {0, 6}, deep : {0, 1007}]

\* detectChildIdFallback of album_list.js, after the body was parsed
albumFallbackId(j) == OrElse(j.child0, OrElse(j.direct, j.deep))

\* detectChildIdFallback of report_list.js, after the body was parsed
reportFallbackId(j) == OrElse(j.direct, OrElse(j.child0, j.deep))

\* fetch rejected, !r.ok, r.json() rejected, or a parsed body
InfoOutcomes == {"rejected", "http", "nonjson", "body"}

NoBody == [child0 |-> 0, direct |-> 0, deep |-> 0]

NoInfo == [childId |-> 0, source |-> "none"]

IdleLocator ==
  [pc |-> "idle", kind |-> "album", hit |-> 0, meInfo |-> FALSE,
   infoOutcome |-> "none", body |-> NoBody, fallbackId |-> 0, probed |-> 0, probeOk |-> FALSE, ok |-> FALSE,
   info |-> NoInfo, result |-> "none", handled |-> 0]

\* sendResponse({ ok: !!info, info })
Respond(l, info) ==
  [l EXCEPT !.pc = "answered", !.ok = info # NoInfo, !.info = info]

\* let info = find*ApiFromPerformance(); if (!info) detectChildIdFallback()
Lookup(l, kind, hit) ==
  LET q == [IdleLocator EXCEPT !.kind = kind, !.hit = hit,
                               !.handled = l.handled + 1]
  IN IF hit # 0 THEN Respond(q, [childId |-> hit, source |-> "scan"])
     ELSE [q EXCEPT !.pc = "f_info", !.meInfo = TRUE]

\* the rest of detectChildIdFallback, then validateChildId up to its fetch
AfterInfo(l, out, j) ==
  LET id == IF out # "body" THEN 0
            ELSE IF l.kind = "album" THEN albumFallbackId(j)
            ELSE reportFallbackId(j)
      q == [l EXCEPT !.infoOutcome = out,
                     !.body = IF out = "body" THEN j ELSE NoBody]
  IN IF id = 0 THEN Respond(q, NoInfo)
     ELSE [q EXCEPT !.pc = "f_probe", !.fallbackId = id, !.probed = id]

\* a handler that takes the fallback id whatever the probe answered
AfterProbe_Unchecked(l, probeOk) ==
  Respond([l EXCEPT !.probeOk = probeOk],
          [childId |-> l.fallbackId, source |-> "fallback"])

\* return !!(r && r.ok); if (childId && await validateChildId(childId))
AfterProbe(l, probeOk) ==
  Respond([l EXCEPT !.probeOk = probeOk],
          IF probeOk THEN [childId |-> l.fallbackId, source |-> "fallback"]
          ELSE NoInfo)

\* if (msg?.kind === 'GET_ALBUM_API_INFO')
GetAlbumApiInfo ==
  /\ locator.pc \in {"idle", "done"}
  /\ locator.handled < MaxLookups
  /\ \E hit \in ScanHits : locator' = Lookup(locator, "album", hit)
  /\ UNCHANGED <<worker, popup, content, segment, pick>>

\* if (msg?.kind === 'GET_REPORT_API_INFO')
GetReportApiInfo ==
  /\ locator.pc \in {"idle", "done"}
  /\ locator.handled < MaxLookups
  /\ \E hit \in ScanHits : locator' = Lookup(locator, "report", hit)
  /\ UNCHANGED <<worker, popup, content, segment, pick>>

\* the me/info fetch and r.json() settled
InfoAnswered ==
  /\ locator.pc = "f_info"
  /\ \E out \in InfoOutcomes, j \in InfoBodies :
       locator' = AfterInfo(locator, out, j)
  /\ UNCHANGED <<worker, popup, content, segment, pick>>

\* the probe fetch (page_size=1) settled
ProbeAnswered ==
  /\ locator.pc = "f_probe"
  /\ \E probeOk \in BOOLEAN : locator' = AfterProbe(locator, probeOk)
  /\ UNCHANGED <<worker, popup, content, segment, pick>>

\* getAlbumApiInfo / getReportApiInfo of the service worker
ApiInfoReceived ==
  /\ locator.pc = "answered"
  /\ locator' =
       [locator EXCEPT
          !.pc = "done",
          !.result = IF ~locator.ok \/ locator.info.childId = 0
                       THEN IF locator.kind = "album"
                              THEN "CANT_DETECT_ALBUM_API"
                              ELSE "CANT_DETECT_REPORT_API"
                     ELSE "info"]
  /\ UNCHANGED <<worker, popup, content, segment, pick>>

LocatorNext ==
  \/ GetAlbumApiInfo \/ GetReportApiInfo
  \/ InfoAnswered \/ ProbeAnswered \/ ApiInfoReceived

\* ------------------------------------------------------------ initial state
OthersIdle ==
  /\ popup = IdlePopup
  /\ content = IdleContent
  /\ segment = IdleSegment
  /\ pick = IdlePick
  /\ locator = IdleLocator

InitCommon ==
  /\ stopRequested = FALSE
  /\ downloadRunning = FALSE
  /\ store = InitStore
  /\ run = [s \in Slots |-> IdleRun]
  /\ stop = [k \in StopSlots |-> "idle"]

\* Families of environments.  Each family opens some dimensions of the input
\* and closes the others: the full product is out of reach of the checker.
Env(streams, chains, senders, fsets, assets, starts, stops, faults, badUrls) ==
  [stream : streams, chain : chains, sender : senders, fset : fsets,
   assets : assets, starts : starts, stops : stops, faults : faults,
   badUrl : badUrls]

ShortStreams == SeqsUpTo({Created_2024_10}, MaxItems)

\* every stream and every filter pair, one quiet run
ScanEnvs ==
  Env(Streams, {"finite"}, {"popup"}, {"all"}, {0}, {1}, {0}, {FALSE},
      {"none"})

\* misbehaving cursor chains
ChainEnvs ==
  Env(ShortStreams, {"self", "back"}, {"popup"}, {"none"}, {0}, {1},
      {0, MaxStops}, {FALSE}, {"none"})

\* assets, failing downloads and fetches, stop requests at any moment
StopEnvs ==
  Env(ShortStreams, {"finite"}, {"popup"}, {"none"}, {MaxAssets}, {1},
      {MaxStops}, {TRUE}, {"none"})

\* several start requests from the popup
MultiEnvs ==
  Env(SeqsUpTo({Created_2024_10}, 1), {"finite"}, {"popup"}, {"none"}, {0},
      {MaxStarts}, {0, MaxStops}, {FALSE}, {"none"})

\* start requests from any sender: the filters field and the tab id may miss
AnyEnvs ==
  Env(SeqsUpTo({Created_2024_10}, 1), {"finite"}, {"any"}, {"none"}, {0},
      {MaxStarts}, {0}, {FALSE}, {"none"})

\* a chain of empty pages whose tokens never repeat and never end
EndlessEnvs ==
  Env({<< >>}, {"endless"}, {"popup"}, {"none"}, {0}, {1}, {0}, {FALSE},
      {"none"})

\* start requests from any sender and a stop request
RaceStopEnvs ==
  Env(SeqsUpTo({Created_2024_10}, 1), {"finite"}, {"any"}, {"none"}, {0},
      {MaxStarts}, {MaxStops}, {FALSE}, {"none"})

\* one item whose photo or video URLs cannot be parsed
BadUrlEnvs ==
  Env({<<Created_2024_10>>}, {"finite"}, {"popup"}, {"none"}, {MaxAssets}, {1},
      {0}, {FALSE}, {"photo", "video"})

Init ==
  /\ env \in ScanEnvs \cup ChainEnvs \cup StopEnvs \cup MultiEnvs \cup AnyEnvs
               \cup EndlessEnvs \cup BadUrlEnvs \cup RaceStopEnvs
  /\ InitCommon
  /\ OthersIdle

Spec == Init /\ [][Next]_vars

\* one item with assets, failing downloads and fetches, no stop request
FaultEnvs ==
  Env({<<Created_2024_10>>}, {"finite"}, {"popup"}, {"none"}, {MaxAssets}, {1},
      {0}, {TRUE}, {"none"})

\* misbehaving cursor chains scanned with every filter pair
RangeChainEnvs ==
  Env(ShortStreams, {"self", "back"}, {"popup"}, {"all"}, {0}, {1}, {0},
      {FALSE}, {"none"})

\* The runs of the progress properties: every chain shape and every filter
\* pair, with the failures and the messages that can end a run early.
PagingInit ==
  /\ env \in ChainEnvs \cup RangeChainEnvs \cup EndlessEnvs \cup AnyEnvs
               \cup FaultEnvs
  /\ InitCommon
  /\ OthersIdle

\* Every settled promise is eventually delivered to its continuation and every
\* message sent is eventually handled: the event loop leaves no enabled step
\* waiting for ever.
FairSpec == PagingInit /\ [][Next]_vars /\ WF_vars(Next)

\* ------------------------------------------------------------------ claims

\* C1: at most one export loop (startDownloadAlbums or startDownloadReports)
\* is active at any time, for every interleaving of start messages, with or
\* without a filters field.
C1_AtMostOneLoop ==
  Cardinality({s \in Slots : run[s].pc \in LoopPcs}) <= 1

\* C2: a start request handled while downloadRunning is true is answered
\* ALREADY_RUNNING and leaves stopRequested, downloadRunning, the storage
\* slots and every in-flight run (its counters included) unchanged.
C2_RejectedStartChangesNothing ==
  [][\A s \in Slots :
       (run[s].pc = "idle" /\ run'[s].pc # "idle" /\ downloadRunning)
         => /\ run'[s].pc = "rejected"
            /\ run'[s].resp = "ALREADY_RUNNING"
            /\ stopRequested' = stopRequested
            /\ downloadRunning' = downloadRunning
            /\ store' = store
            /\ \A t \in Slots \ {s} :
                  run[t].pc \notin {"ended", "retired"} => run'[t] = run[t]]_vars

C2_Witness ==
  \E s \in Slots, t \in Slots :
    /\ run[s].pc = "rejected"
    /\ run[t].pc \in LoopPcs
    /\ run[t].items > 0
    /\ stopRequested

\* the year-month key of the item at position p of the stream
YmAt(p) == Slice(env.stream[p], 7)

NewestFirst(stream) ==
  \A a \in 1..Len(stream), b \in 1..Len(stream) :
    a < b => ~StrLess(Slice(stream[a], 7), Slice(stream[b], 7))

WellFormed(stream) == \A a \in 1..Len(stream) : YmFormatOk(Slice(stream[a], 7))

Ordered(f) == (Truthy(f.fromYm) /\ Truthy(f.toYm)) => ~StrLess(f.toYm, f.fromYm)

\* fromYm <= ym <= toYm, an absent bound being open
WithinBounds(ym, f) ==
  /\ Truthy(f.fromYm) => ~StrLess(ym, f.fromYm)
  /\ Truthy(f.toYm) => ~StrLess(f.toYm, ym)

PositionsWithin(f) ==
  LET Keep(p) == WithinBounds(YmAt(p), f)
  IN SelectSeq([p \in 1..Len(env.stream) |-> p], Keep)

Quiet(s) == ~run[s].stopSeen /\ run[s].failed = ""

\* C3: over a newest-first stream of well-formed months, delivered by a
\* finite chain, a run with no stop request and no failure hands to the
\* downloader exactly the items with fromYm <= month <= toYm, each once.
C3_ExportsExactlyTheRange ==
  \A s \in Slots :
    ( /\ run[s].pc = "ended"
      /\ env.chain = "finite"
      /\ NewestFirst(env.stream) /\ WellFormed(env.stream)
      /\ Ordered(run[s].filters)
      /\ Quiet(s) )
    => run[s].exported = PositionsWithin(run[s].filters)

C3_Witness ==
  \E s \in Slots :
    /\ run[s].pc = "ended" /\ Quiet(s)
    /\ env.chain = "finite"
    /\ env.stream = <<Created_2024_11, Created_2024_10, Created_2024_09>>
    /\ run[s].filters = [fromYm |-> Ym_2024_10, toYm |-> Ym_2024_10]
    /\ run[s].exported = <<2>>

\* C4 (as claimed): once stopRequested is set, the run initiates no further
\* download call, fallback retries included.
C4_NoCallAfterStop == \A s \in Slots : run[s].lateCalls = 0

\* C4 (amended): while stopRequested stays set, a run starts download calls
\* for at most one more asset, the one whose stop check it had already
\* passed: at most its primary call and its single fallback retry.
C4_AtMostCurrentAssetAfterStop ==
  \A s \in Slots : run[s].lateAssets <= 1 /\ run[s].lateCalls <= 2

C4_Witness ==
  \E s \in Slots :
    /\ run[s].pc = "d_retry" /\ run[s].lateCalls = 2 /\ stopRequested

\* C5: a STOP_DOWNLOAD handled while downloadRunning is true halts the run:
\* no item is started after it and the terminal line is the stopped one.
C5_StopHaltsTheRun ==
  \A s \in Slots :
    (run[s].pc = "ended" /\ run[s].stopSeen /\ run[s].failed = "")
      => run[s].terminal = "stopped" /\ run[s].lateItems = 0

\* C6: for every chain of page responses (finite, repeating or self-referring
\* tokens, endlessly distinct tokens) a started export loop halts and the run
\* has published a final summary.
C6_PaginationHalts ==
  \A s \in Slots :
    (run[s].pc = "r_stopStored")
      ~> /\ run[s].pc = "ended"
         /\ run[s].published # NoReport
         /\ run[s].failed = "" => run[s].published.kind = "summary"

C6_Witness ==
  \E s \in Slots :
    /\ run[s].pc = "ended" /\ env.chain = "back"
    /\ Len(env.stream) > PageLen
    /\ run[s].pageToken \in run[s].seen
    /\ run[s].published.kind = "summary"
    /\ run[s].published.items = Len(env.stream)

AfterScanPcs == {"p_scanProg", "f_report", "f_lp", "f_prog", "z_running", "ended"}

\* C7: once the controller has met an item below fromYm, nothing more is
\* exported or counted as skipped and no page is fetched; in the two-page
\* scenario with filters 2024-10..2024-10 exactly the 2024-10 item is
\* exported, the 2024-11 item is skipped, the 2024-09 item is neither
\* exported nor counted and the summary reports one item.
C7_EarlyStop ==
  \A s \in Slots :
    /\ run[s].early # << >>
         => run[s].pc \in AfterScanPcs /\ Snapshot(run[s]) = run[s].early
    /\ ( /\ run[s].pc = "ended" /\ Quiet(s)
          /\ PageLen = 2 /\ env.chain = "finite"
          /\ env.stream = <<Created_2024_11, Created_2024_10, Created_2024_09>>
          /\ run[s].filters = [fromYm |-> Ym_2024_10, toYm |-> Ym_2024_10] )
         => /\ run[s].exported = <<2>>
            /\ run[s].skipped = 1
            /\ run[s].published.kind = "summary"
            /\ run[s].published.items = 1

C7_Witness ==
  \E s \in Slots :
    /\ run[s].pc = "ended" /\ Quiet(s) /\ run[s].early # << >>
    /\ PageLen = 2 /\ env.chain = "finite"
    /\ env.stream = <<Created_2024_11, Created_2024_10, Created_2024_09>>
    /\ run[s].filters = [fromYm |-> Ym_2024_10, toYm |-> Ym_2024_10]
    /\ run[s].kind = "album"
    /\ run[s].published.items = 1

AfterFatalPcs == AfterScanPcs \cup {"i_errStored"}

\* C8: when the downloader returns a failure for an item the run stops at
\* that item: nothing more is exported, no page is fetched, lastError holds
\* the reason and the final summary is published.
C8_FatalItemStopsRun ==
  \A s \in Slots :
    run[s].fatal # << >>
      => /\ run[s].pc \in AfterFatalPcs
         /\ Len(run[s].exported) = run[s].fatal[1]
         /\ run[s].lastError = run[s].failed
         /\ run[s].pc \in {"f_lp", "f_prog", "z_running", "ended"}
              => run[s].published.kind = "summary"

C8_Witness ==
  \E s \in Slots :
    /\ run[s].pc = "ended" /\ run[s].fatal # << >>
    /\ Len(env.stream) > PageLen
    /\ Len(run[s].exported) = 1
    /\ run[s].published.errors = 1

\* C9: a run ended by a fatal failure (an item export failure or a failed
\* page fetch) has published a final summary with the counts accumulated
\* before the failure.
C9_FatalSummaryHasCounts ==
  \A s \in Slots :
    (run[s].pc = "ended" /\ run[s].failed \in {"invalid", "other", "HTTP"})
      => /\ run[s].published.kind = "summary"
         /\ run[s].published.items = run[s].items
         /\ run[s].published.photos = run[s].photos
         /\ run[s].published.videos = run[s].videos
         /\ run[s].published.files = run[s].files

\* C10: a save retries exactly once after an invalid-filename failure of the
\* primary path and never otherwise; it fails exactly when the primary
\* attempt failed otherwise or the retry failed; no asset gets more than two
\* download attempts.
C10_RetryOnceOnInvalidFilename ==
  \A s \in Slots :
    LET r == run[s]
    IN /\ r.attempts <= 2
       /\ r.pc \in {"d_retryProg", "d_retry"} => r.primary = "invalid"
       /\ r.attempts = 2 => r.primary = "invalid"
       /\ r.primary = "invalid" /\ r.pc # "d_retryProg" => r.attempts = 2
       /\ r.primary \in {"ok", "other"} => r.attempts = 1 /\ r.retry = "none"
       /\ r.saveOk = "failed"
            <=> (r.primary = "other" \/ r.retry \in {"invalid", "other"})
       /\ r.saveOk = "ok"
            <=> (r.primary = "ok" \/ r.retry = "ok")

C10_Witness ==
  \E s \in Slots :
    /\ run[s].pc = "d_failProg" /\ run[s].attempts = 2
    /\ run[s].primary = "invalid" /\ run[s].retry = "invalid"
    /\ run[s].asset = "video"

\* ------------------------------------------------------- the popup by itself
PopupInit ==
  /\ env \in EndlessEnvs
  /\ InitCommon
  /\ popup \in {[IdlePopup EXCEPT !.fromField = a, !.toField = b] :
                  a \in FieldValues, b \in FieldValues}
  /\ content = IdleContent
  /\ segment = IdleSegment
  /\ pick = IdlePick
  /\ locator = IdleLocator

PopupSpec == PopupInit /\ [][PopupNext]_vars

\* a year-month: four digits, a hyphen, a month from 01 to 12
ValidYearMonth(s) ==
  /\ Len(s) = 7
  /\ \A k \in {1, 2, 3, 4, 6, 7} : IsDigit(s[k])
  /\ s[5] = 45
  /\ (s[6] - 48) * 10 + (s[7] - 48) \in 1..12

\* C11: every start message the popup sends carries filters whose non-empty
\* bounds are valid year-months with fromYm not greater than toYm.
C11_OnlyValidFiltersAreSent ==
  \A k \in 1..Len(popup.sent) :
    LET f == popup.sent[k].filters
    IN /\ Truthy(f.fromYm) => ValidYearMonth(f.fromYm)
       /\ Truthy(f.toYm) => ValidYearMonth(f.toYm)
       /\ (Truthy(f.fromYm) /\ Truthy(f.toYm)) => ~StrLess(f.toYm, f.fromYm)

AllPositions == [p \in 1..Len(env.stream) |-> p]

\* C12: whatever the bounds, a run over items whose year-month keys are all
\* malformed (empty, or not of the form YYYY-MM) exports every one of them,
\* counts none as skipped and does not stop the scan early.
C12_MalformedKeysAreInRange ==
  \A s \in Slots :
    ( /\ run[s].pc = "ended" /\ Quiet(s)
      /\ env.chain = "finite"
      /\ \A p \in 1..Len(env.stream) : ~YmFormatOk(YmAt(p)) )
    => /\ run[s].exported = AllPositions
       /\ run[s].skipped = 0
       /\ run[s].early = << >>

\* C13: a run that received a page whose body was not JSON (a null payload)
\* ends without anything thrown, with its counted final summary and its
\* terminal progress line.
C13_NullPageEndsGracefully ==
  \A s \in Slots :
    (run[s].pc = "ended" /\ run[s].nullPage)
      => /\ run[s].failed = ""
         /\ run[s].published.kind = "summary"
         /\ run[s].terminal \in {"done", "stopped"}

\* C14: a run whose API discovery fails at its start aborts with no page
\* fetch and no download call; it writes the run-failure progress line and
\* the synthetic final summary, and the step that follows the summary leaves
\* downloadRunning false.
C14_DiscoveryFailureAborts ==
  /\ [](\A s \in Slots :
          run[s].failed = "CANT_DETECT"
            => /\ run[s].fetches = 0
               /\ ~run[s].called
               /\ run[s].terminal = "runfail"
               /\ run[s].pc \in {"c_prog", "c_report", "z_running", "ended"}
               /\ run[s].pc # "c_prog"
                    => run[s].published = Synthetic("CANT_DETECT"))
  /\ [][\A s \in Slots :
          (run[s].failed = "CANT_DETECT" /\ run[s].pc = "c_report"
             /\ run'[s].pc = "z_running")
            => ~downloadRunning' /\ ~store'.downloadRunning]_vars

C14_Witness ==
  \E s \in Slots :
    /\ run[s].pc = "ended"
    /\ run[s].failed = "CANT_DETECT"
    /\ store.progressText = "runfail"
    /\ store.finalReport = Synthetic("CANT_DETECT")
    /\ ~downloadRunning

\* C15: downloadRunning is true only while an export loop owns it; every
\* accepted start reaches the end of its run, whose last step leaves the flag
\* false in memory and in storage; and a start request handled while the flag
\* is false is never answered ALREADY_RUNNING.
C15_RunningFlagFollowsTheLoop ==
  /\ [](downloadRunning => \E s \in Slots : run[s].pc \in ActivePcs)
  /\ \A s \in Slots : (run[s].pc = "h_setRunning") ~> (run[s].pc = "z_running")
  /\ [][\A s \in Slots :
          /\ (run[s].pc # "z_running" /\ run'[s].pc = "z_running")
               => ~downloadRunning' /\ ~store'.downloadRunning
          /\ (run[s].pc = "idle" /\ run'[s].pc = "rejected")
               => downloadRunning]_vars

\* one run has ended and a later start request has been accepted
C15_Witness ==
  \E s, t \in Slots :
    /\ run[s].pc = "ended"
    /\ run[t].pc = "r_stopStored" /\ run[t].resp = "ok"
    /\ downloadRunning

\* C16: a run issues at most 5000 page fetches in total, the first page
\* included, whatever the chain of page tokens.
C16_AtMostPageCapFetches ==
  \A s \in Slots : run[s].fetches <= PageCap

ContentInit ==
  /\ env \in EndlessEnvs
  /\ InitCommon
  /\ OthersIdle

\* the page fetch handlers of the two content scripts, one request at a time
ContentSpec == ContentInit /\ [][ContentNext]_vars

\* the pieces of s between the occurrences of the code unit c
RECURSIVE Split(_, _)
Split(s, c) ==
  LET k == IndexOfAny(s, {c}, 1)
  IN IF k > Len(s) THEN <<s>>
     ELSE <<SubSeq(s, 1, k - 1)>> \o Split(SubSeq(s, k + 1, Len(s)), c)

CollectionOf(kind) == IF kind = "albums" THEN <<97, 108, 98, 117, 109, 115>>
                      ELSE <<114, 101, 112, 111, 114, 116, 115>>

\* /api/<version>/children/<digits>/<collection>, optionally followed by a
\* slash
IsCollectionPath(path, kind) ==
  LET seg == Split(path, 47)
  IN /\ Len(seg) \in {6, 7}
     /\ seg[1] = << >>
     /\ seg[2] = <<97, 112, 105>>
     /\ Len(seg[3]) > 0
     /\ seg[4] = <<99, 104, 105, 108, 100, 114, 101, 110>>
     /\ Len(seg[5]) > 0 /\ \A k \in 1..Len(seg[5]) : IsDigit(seg[5][k])
     /\ seg[6] = CollectionOf(kind)
     /\ Len(seg) = 7 => seg[7] = << >>

OnAllowList(raw, kind) ==
  LET u == parseUrl(raw)
  IN /\ u.ok
     /\ u.protocol = Url_HttpsColon
     /\ u.hostname = Url_Host
     /\ IsCollectionPath(u.pathname, kind)

\* C17: a page fetch handler has issued its fetch only if the requested URL
\* has protocol https, host www.kidsnote.com and the collection path of the
\* handler's record kind; a request for any other URL is answered
\* DISALLOWED_FETCH_URL and no fetch is made for it.
C17_FetchOnlyAllowListed ==
  /\ content.fetched => OnAllowList(content.url, content.kind)
  /\ (content.pc = "answered" /\ ~OnAllowList(content.url, content.kind))
       => content.resp = "DISALLOWED_FETCH_URL" /\ ~content.fetched

C17_Witness ==
  /\ content.pc = "answered"
  /\ content.kind = "reports"
  /\ content.fetched
  /\ content.resp = "json"
  /\ parseUrl(content.url).pathname = Url_Api12 \o Url_Id42 \o Url_ReportsSlash

SegmentInit ==
  /\ env \in EndlessEnvs
  /\ InitCommon
  /\ popup = IdlePopup
  /\ content = IdleContent
  /\ segment \in {[IdleSegment EXCEPT !.pc = "input", !.s = str, !.n = cap] :
                    str \in SegInputs, cap \in 1..MaxCap}
  /\ pick = IdlePick
  /\ locator = IdleLocator

\* sanitizeSegment applied to every short string with every small cap, and
\* applied again to its own result
SegmentSpec == SegmentInit /\ [][SegmentNext]_vars

\* C18: for every string s and cap n >= 1 the result of sanitizeSegment(s, n)
\* is non-empty, at most n characters long, free of the characters
\* \ / : * ? " < > | and of control characters, without a trailing dot or
\* space, and sanitizing it again with the same cap gives the same string.
C18_SanitizeIsIdempotentAndSafe ==
  /\ segment.pc \in {"once", "twice"}
       => LET out == segment.once
          IN /\ Len(out) > 0
             /\ Len(out) <= segment.n
             /\ \A k \in 1..Len(out) :
                  out[k] \notin SegForbidden /\ ~IsControl(out[k])
             /\ out[Len(out)] \notin {46, 32}
  /\ segment.pc = "twice" => segment.twice = segment.once

\* the positions inside downloadAlbumFromApi / downloadReportFromApi
DownloaderPcs ==
  {"i_textProg", "d_primary", "d_retryProg", "d_retry", "d_failProg",
   "a_prog", "a_sleep", "i_lp1"}

\* C19: no step taken inside the downloader ends in the top-level catch of
\* the start handler: whatever happens to an asset or an item, also one with
\* an asset URL that cannot be parsed, the downloader returns to the loop.
C19_NoThrowFromDownloader ==
  [][\A s \in Slots :
       run[s].pc \in DownloaderPcs => run'[s].pc # "c_prog"]_vars

\* C20: when the only run has ended with its terminal line, a stop request
\* reached it while it was active and every STOP_DOWNLOAD handler has
\* finished, the progress slot holds the terminal line of the run.
C20_TerminalLineIsLast ==
  \A s \in Slots :
    ( /\ env.starts = 1
      /\ run[s].pc = "ended"
      /\ run[s].stopSeen
      /\ run[s].terminal \in {"done", "stopped"}
      /\ \A k \in StopSlots : stop[k] \in {"idle", "done"} )
      => store.progressText = run[s].terminal

\* an item with image attachments only, or with video attachments only
PickInit ==
  /\ env \in EndlessEnvs
  /\ InitCommon
  /\ popup = IdlePopup
  /\ content = IdleContent
  /\ segment = IdleSegment
  /\ locator = IdleLocator
  /\ \E kind \in {"album", "report"} :
       \/ \E imgs \in SeqsUpTo(ImageShapes, MaxAttach) :
            pick = [IdlePick EXCEPT !.pc = "input", !.kind = kind,
                                    !.images = imgs]
       \/ \E vs \in SeqsUpTo(VideoShapes, MaxAttach) :
            pick = [IdlePick EXCEPT !.pc = "input", !.kind = kind,
                                    !.videos = vs]

\* the URLs chosen for the attachments of one item
PickSpec == PickInit /\ [][PickNext]_vars

ImageOrder == <<"original", "large", "large_resize", "small", "small_resize">>

VideoOrder == <<"high", "low">>

\* the URL of the first rendition of the order that the attachment has, as a
\* list of one URL, or the empty list when it has none of them
FirstAvailable(att, order) ==
  LET have == {k \in 1..Len(order) : att[order[k]] # NoUrl}
  IN IF have = {} THEN << >>
     ELSE <<att[order[CHOOSE k \in have : \A j \in have : k <= j]]>>

RECURSIVE OnePerAttachment(_, _)
OnePerAttachment(atts, order) ==
  IF Len(atts) = 0 THEN << >>
  ELSE FirstAvailable(Head(atts), order) \o OnePerAttachment(Tail(atts), order)

\* C21: for each image attachment and each video attachment of an item, of
\* an album and of a report alike, exactly one URL is downloaded: the first
\* available one in the order original > large > large_resize > small >
\* small_resize for images and high > low for videos.
C21_OneBestUrlPerAttachment ==
  pick.pc = "done"
    => /\ pick.imageUrls = OnePerAttachment(pick.images, ImageOrder)
       /\ pick.videoUrls = OnePerAttachment(pick.videos, VideoOrder)

\* C22: once the only run, of albums or of reports, has exported an item
\* successfully (the loop pauses before the next item), the stored
\* last-processed marker holds that item's running index and its id.
C22_MarkerFollowsEachItem ==
  \A s \in Slots :
    (env.starts = 1 /\ run[s].pc = "i_sleep")
      => store.lastProgress =
           [index |-> run[s].processed,
            id |-> PageResults(env.stream, run[s].page)[run[s].idx],
            done |-> FALSE]

LocatorInit ==
  /\ env \in EndlessEnvs
  /\ InitCommon
  /\ OthersIdle

\* one endpoint lookup, from the message to the service worker's result
LocatorSpec == LocatorInit /\ [][LocatorNext]_vars

\* C23: the account-info fetch is made only when the resource log held no
\* matching URL; an endpoint built from the fallback id is answered only if
\* the probe of that very id succeeded; and when the log held nothing and
\* the fallback gave no probed id, the answer is ok:false and the service
\* worker's result is the CANT_DETECT error of the record kind.
C23_FallbackOnlyAfterProbe ==
  /\ locator.meInfo => locator.hit = 0
  /\ locator.probed # 0 => locator.meInfo
  /\ (locator.ok /\ locator.info.source = "fallback")
       => /\ locator.probeOk
          /\ locator.probed = locator.info.childId
          /\ locator.info.childId # 0
  /\ (locator.pc \in {"answered", "done"} /\ locator.hit = 0
        /\ ~locator.probeOk)
       => ~locator.ok
  /\ locator.pc = "done"
       => (locator.ok <=> locator.result = "info")
          /\ (~locator.ok <=>
                locator.result = (IF locator.kind = "album"
                                    THEN "CANT_DETECT_ALBUM_API"
                                    ELSE "CANT_DETECT_REPORT_API"))

C23_Witness ==
  /\ locator.pc = "done"
  /\ locator.kind = "report"
  /\ locator.hit = 0
  /\ locator.probed = 6
  /\ ~locator.probeOk
  /\ locator.result = "CANT_DETECT_REPORT_API"

\* C24: a run that the stop check of its item loop halted, and in which no
\* download failed, ends with errors 0 and an empty lastError, a final
\* summary without an error part, and the stopped terminal line.
C24_StopIsNotAnError ==
  \A s \in Slots :
    ( /\ run[s].pc = "ended"
      /\ run[s].halted
      /\ run[s].fatal = << >> /\ run[s].failed = "" )
      => /\ run[s].errors = 0
         /\ run[s].lastError = ""
         /\ run[s].published.kind = "summary"
         /\ run[s].published.errors = 0
         /\ run[s].published.lastError = ""
         /\ run[s].terminal = "stopped"

\* the positions of a run between its setFinalReport('') and its own summary
BeforeSummaryPcs == (LoopPcs \ {"r_stopStored", "f_report", "f_lp", "f_prog"}) \cup {"c_prog"}

\* C25: an accepted start sets stopRequested to false and clears the
\* final-summary slot, and from then until the run publishes its own final
\* summary the final-summary slot stays empty.
C25_RunScopedStateReset ==
  /\ [](\A s \in Slots :
          run[s].pc \in BeforeSummaryPcs => store.finalReport = NoReport)
  /\ [][\A s \in Slots :
          (run[s].pc = "h_setRunning" /\ run'[s].pc = "r_stopStored")
            => (~stopRequested' /\ ~store'.stopRequested)]_vars

\* the step of run s that leaves the loop header with a new page request
IssuesFetch(s) == run'[s].pc = "r_fetchNext" /\ run'[s].i # run[s].i

\* C26: within one run no cursor token is used for more than one page fetch:
\* a page is requested only for a token that was not in the seen set and is
\* in it from then on, the set never loses a token, and a response whose next
\* token is already in the set ends pagination without another fetch.
C26_TokenFetchedOnce ==
  [][\A s \in Slots :
       /\ run[s].seen \subseteq run'[s].seen
       /\ IssuesFetch(s)
            => /\ run'[s].pageToken # 0
               /\ run'[s].pageToken \notin run[s].seen
               /\ run'[s].pageToken \in run'[s].seen
       /\ (run[s].pc = "r_fetchNext" /\ run'[s].fetches # run[s].fetches)
            => run[s].pageToken \in run[s].seen
       /\ ( /\ run'[s].i # run[s].i
            /\ run'[s].pageToken \in run[s].seen )
            => run'[s].pc = "f_report"]_vars

C26_Witness ==
  \E s \in Slots :
    /\ run[s].pc = "ended" /\ env.chain = "self"
    /\ run[s].failed = "" /\ ~run[s].stopSeen
    /\ run[s].pageToken # 0
    /\ run[s].pageToken \in run[s].seen
    /\ run[s].fetches >= 2
    /\ run[s].fetches = Cardinality(run[s].seen) + 1

\* the calls of run s that have been made and not yet answered
Outstanding(s) ==
  (IF run[s].pc \in {"r_fetchFirst", "r_fetchNext"} THEN {"fetch"} ELSE {})
    \cup (IF run[s].pc \in {"d_primary", "d_retry"} THEN {"download"} ELSE {})

AssetRank(a) ==
  CASE a = "text" -> 1 [] a = "photo" -> 2 [] a = "video" -> 3
    [] a = "file" -> 4 [] OTHER -> 0

\* the place of the loops: page fetched, item of the page, asset kind, asset
LoopPosition(r) == <<r.fetches, r.idx, AssetRank(r.asset), r.an>>

RECURSIVE LexLess(_, _)
LexLess(a, b) ==
  IF a = << >> THEN FALSE
  ELSE Head(a) < Head(b) \/ (Head(a) = Head(b) /\ LexLess(Tail(a), Tail(b)))

\* C27: within a run at most one page fetch or download call is outstanding,
\* and the calls follow the loops: the items of a page in the order returned,
\* the assets of an item in the order text, photos, videos, files, and a next
\* page is requested only when every item of the current page was handled.
C27_OneCallInLoopOrder ==
  /\ [](\A s \in Slots : Cardinality(Outstanding(s)) <= 1)
  /\ [][\A s \in Slots :
          LET r == run[s]
              q == run'[s]
          IN /\ q.pc \in ActivePcs => ~LexLess(LoopPosition(q), LoopPosition(r))
             /\ (q.pc \in {"i_textProg", "a_prog"} /\ r.pc # q.pc)
                  => LexLess(LoopPosition(r), LoopPosition(q))
             /\ (q.pc = "d_primary" /\ r.pc # "d_primary")
                  => r.pc \in {"i_textProg", "a_prog"}
             /\ Len(q.exported) > Len(r.exported)
                  => q.exported = Append(r.exported,
                                         PageResults(env.stream, q.page)[q.idx])
             /\ IssuesFetch(s)
                  => /\ ~q.doneRange
                     /\ q.idx = Len(PageResults(env.stream, q.page)) + 1]_vars

C27_Witness ==
  \E s \in Slots :
    /\ run[s].pc = "d_primary" /\ run[s].kind = "report"
    /\ run[s].asset = "file" /\ run[s].photos = 1 /\ run[s].videos = 1
    /\ run[s].fetches = 2 /\ run[s].idx = 1
    /\ Len(run[s].exported) = PageLen + 1

\* C28: a run that ended because an item export failed does not publish the
\* normal-completion line: that line is published only for runs that ended
\* with neither a fatal item failure nor a stop request.
C28_NoCompletionLineAfterFailure ==
  \A s \in Slots :
    run[s].terminal = "done" => (run[s].fatal = << >> /\ ~run[s].halted)

\* C29: in the final summary of every run, one ended by a fatal item failure
\* included, the item count is the number of items whose export completed
\* (the downloader returned ok at its end) and the photo, video and file
\* counts are the numbers of assets of each kind that were saved.
C29_SummaryCountsSuccesses ==
  \A s \in Slots :
    run[s].published.kind = "summary"
      => /\ run[s].published.items = run[s].completed
         /\ run[s].published.photos = run[s].saved.photo
         /\ run[s].published.videos = run[s].saved.video
         /\ run[s].published.files = run[s].saved.file

\* const counters = {...}: the counters of a run, in a fixed order
Counters(r) == <<r.items, r.skipped, r.photos, r.videos, r.files, r.errors>>

\* C30: in every state of a run the errors counter is 0 or 1 and no counter
\* ever decreases from its initial zero: the first failed download increments
\* errors once, the item returns a failure, and the controller makes no other
\* download call or page fetch in that run.
C30_AtMostOneError ==
  /\ [](\A s \in Slots :
          /\ run[s].errors \in {0, 1}
          /\ run[s].pc \in {"idle", "h_setRunning", "r_stopStored", "r_cleared",
                            "r_started", "r_discover", "r_fetchFirst"}
               => \A k \in 1..Len(Counters(run[s])) : Counters(run[s])[k] = 0)
  /\ [][\A s \in Slots :
          LET r == run[s]
              q == run'[s]
          IN q.pc # "retired"
               => /\ \A k \in 1..Len(Counters(r)) :
                       Counters(q)[k] >= Counters(r)[k]
                  /\ q.errors # r.errors
                       => /\ r.pc = "d_failProg"
                          /\ q.fatal # << >> /\ q.lastError = r.err
                  /\ r.errors = 1
                       => /\ q.pc \notin {"i_textProg", "a_prog", "d_primary",
                                         "d_retryProg", "d_retry", "r_fetchNext"}
                          /\ q.fetches = r.fetches]_vars

C30_Witness ==
  \E s \in Slots :
    /\ run[s].pc = "ended" /\ run[s].errors = 1
    /\ run[s].items = 2 /\ run[s].photos = 1 /\ run[s].completed = 1
    /\ run[s].asset = "photo"
    /\ run[s].published.kind = "summary" /\ run[s].published.errors = 1

\* C31: for the same body of the account-info response the fallback of the
\* album locator and the fallback of the report locator derive the same
\* child id: the id a handler derived is the id the other handler derives
\* from that body.
C31_LocatorsAgreeOnChild ==
  locator.infoOutcome = "body"
    => locator.fallbackId =
         (IF locator.kind = "album" THEN reportFallbackId(locator.body)
          ELSE albumFallbackId(locator.body))

\* ---------------------------------------------------- the page URLs of a run
\* The controller builds each page URL from the baseUrl and childId of the
\* endpoint lookup and sends it to the page fetch handler of the content
\* script of its record kind.
MaxPageRequests == 2

Str_page_size == <<112, 97, 103, 101, 95, 115, 105, 122, 101>>
Str_100 == <<49, 48, 48>>
Str_tz == <<116, 122>>
Str_AsiaSeoul == <<65, 115, 105, 97, 47, 83, 101, 111, 117, 108>>
Str_child == <<99, 104, 105, 108, 100>>
Str_page == <<112, 97, 103, 101>>
Token_2 == <<50>>
Token_Marks == <<47, 63, 35, 38, 32, 61>>
Token_Url == <<104, 116, 116, 112, 115, 58, 47, 47, 101, 47, 97, 63, 112, 97, 103, 101, 61, 51>>

\* first.next / j.next of a page response, when it is not empty
Tokens == {Token_2, Token_Marks, Token_Url}

\* `${childId}` / String(childId) of a positive integer: its decimal digits
RECURSIVE DigitsOf(_)
DigitsOf(n) ==
  IF n < 10 THEN <<48 + n>> ELSE DigitsOf(n \div 10) \o <<48 + (n % 10)>>

HexDigit(n) == IF n < 10 THEN 48 + n ELSE 55 + n

\* the serialisation of one name or value by URLSearchParams
RECURSIVE formEncode(_)
formEncode(v) ==
  IF v = << >> THEN << >>
  ELSE LET c == Head(v)
           e == IF IsDigit(c) \/ IsAlpha(c) \/ c \in {42, 45, 46, 95} THEN <<c>>
                ELSE IF c = 32 THEN <<43>>
                ELSE <<37, HexDigit(c \div 16), HexDigit(c % 16)>>
       IN e \o formEncode(Tail(v))

\* url.search after the searchParams.set calls, in the order of the calls
RECURSIVE SearchOf(_)
SearchOf(params) ==
  IF params = << >> THEN << >>
  ELSE LET n == Len(params)
       IN (IF n > 1 THEN SearchOf(SubSeq(params, 1, n - 1)) \o <<38>>
           ELSE <<63>>)
          \o formEncode(params[n][1]) \o <<61>> \o formEncode(params[n][2])

\* baseUrl of the info answered by GET_ALBUM_API_INFO / GET_REPORT_API_INFO
baseUrlOf(kind, childId) ==
  Url_Https \o Url_SchemeSep \o Url_Host
    \o (IF kind = "album" THEN Url_Api13 ELSE Url_Api12)
    \o DigitsOf(childId)
    \o (IF kind = "album" THEN Url_AlbumsSlash ELSE Url_ReportsSlash)

\* a page URL whose cursor token is put into the path
PageUrl_TokenInPath(kind, childId, token) ==
  baseUrlOf(kind, childId) \o token

\* new URL(baseUrl) with page_size, tz, child and, for a cursor page, page
PageUrl(kind, childId, token) ==
  baseUrlOf(kind, childId)
    \o SearchOf(<<<<Str_page_size, Str_100>>, <<Str_tz, Str_AsiaSeoul>>,
                  <<Str_child, DigitsOf(childId)>>>>
                \o (IF token = << >> THEN << >> ELSE <<<<Str_page, token>>>>))

\* fetchAlbumsJsonViaTab / fetchReportsJsonViaTab: the message of the record
\* kind reaches the handler, which tests the URL
SendPage(token) ==
  /\ locator.pc = "done"
  /\ locator.result = "info"
  /\ content.pc \in {"idle", "answered"}
  /\ content.handled < MaxPageRequests
  /\ content.resp \in {"none", "json"}
  /\ LET raw == PageUrl(locator.kind, locator.info.childId, token)
     IN content' =
          IF locator.kind = "album"
            THEN FetchPage(content, "albums", raw, isAllowedAlbumsApiUrl(raw))
            ELSE FetchPage(content, "reports", raw, isAllowedReportsApiUrl(raw))
  /\ UNCHANGED <<worker, popup, segment, pick, locator>>

\* const first = await fetch...JsonViaTab(tabId, firstUrl.toString())
SendFirstPage ==
  /\ content.handled = 0
  /\ SendPage(<< >>)

\* const j = await fetch...JsonViaTab(tabId, url.toString())
SendCursorPage ==
  /\ content.handled > 0
  /\ \E token \in Tokens : SendPage(token)

\* a lookup made while no page request of the run is open
LookupStep ==
  /\ content.pc = "idle"
  /\ LocatorNext

PageUrlNext ==
  \/ LookupStep
  \/ SendFirstPage \/ SendCursorPage
  \/ FetchPageAnswered

PageUrlInit ==
  /\ env \in EndlessEnvs
  /\ InitCommon
  /\ OthersIdle

\* an endpoint lookup followed by the page requests built from its answer
PageUrlSpec == PageUrlInit /\ [][PageUrlNext]_vars

\* C32: every page URL the controller builds from the answer of the endpoint
\* lookup, the first page and every cursor page whatever its token, passes
\* the allow-list test of the page fetch handler of its kind: no request of
\* a run is answered DISALLOWED_FETCH_URL.
C32_BuiltUrlsAreAllowed ==
  content.handled > 0
    => /\ content.fetched
       /\ content.resp # "DISALLOWED_FETCH_URL"
       /\ \E token \in Tokens \cup {<< >>} :
            content.url = PageUrl(locator.kind, locator.info.childId, token)

C32_Witness ==
  /\ content.pc = "answered" /\ content.handled = 2
  /\ content.kind = "reports" /\ content.fetched /\ content.resp = "json"
  /\ locator.info.source = "fallback"
  /\ content.url = PageUrl("report", locator.info.childId, Token_Marks)
====
